---- MODULE Spec2Model ----
(***************************************************************************)
(* Sky High Recipes: the elevation adjustment of cooking time and          *)
(* temperature, the screens that display it, and the recipe form.          *)
(*                                                                         *)
(* Numbers.  A JavaScript number is a record [k, v]: k = "num" with the    *)
(* value in v, or k = "nan".  null is the record with k = "null".          *)
(* Fractions are kept exact as fixed-point integers:                       *)
(*   - an elevation in feet handed to the adjustment functions is counted  *)
(*     in units of 1/FP foot (FP = 25000: 3.28084 = 82021/25000 exactly);  *)
(*   - an adjusted time is counted in hundredths of a minute (the          *)
(*     multipliers 1.1, 1.15 and 1.2 have two decimals);                   *)
(*   - temperatures and the numbers typed in text fields are whole.        *)
(***************************************************************************)
EXTENDS Integers, Sequences, FiniteSets

VARIABLES
    fnCall,         \* the last call of one of the three adjustment functions
    settings,       \* SettingsContext: temperatureUnit, elevationUnit, elevation
    localElevation, \* SettingsScreen: the text of the elevation field
    recipes,        \* RecipesScreen: the recipe list state
    listView,       \* what RecipesScreen last rendered, per recipe card
    detailId,       \* the id parameter of the open recipe route, or NoRoute
    detailView,     \* what RecipeScreen last rendered
    origin,         \* the elevation last typed or loaded, and the unit toggles since
    remembered,     \* one earlier computation: its four inputs and its results
    initialData,    \* RecipeForm: the recipe being edited, or NoData for a new one
    name,           \* RecipeForm: the text fields, each a sequence of characters
    imageUrl,
    baseTime,
    baseTemp,
    instructions,   \* RecipeForm: the sequence of instruction texts
    loading,
    error,          \* RecipeForm: the error label, or NoError
    pc,             \* where handleSubmit stands: "idle", "getUser" or "store"
    pending,        \* the field values the running handleSubmit was started with
    request,        \* the insert or update sent to the recipe store and not yet answered
    closed,         \* onClose has been called
    table,          \* the recipes table: per row id, the row or NoRow
    timeLeft,       \* TimerScreen: seconds left
    isRunning,
    inputMinutes,   \* TimerScreen: the texts of the two input fields
    inputSeconds,
    totalTimeRef,   \* TimerScreen: totalTimeRef.current
    intervals,      \* the countdown intervals set and not cleared
    effectInterval, \* the interval the countdown effect created when it last ran
    lookups,        \* SettingsScreen: the location lookups under way
    errorMsg,       \* SettingsScreen: the message of the location lookup
    denominated     \* the unit in which the stored elevation number was produced

fnVars == <<fnCall>>
displayVars == <<settings, localElevation, recipes, listView, detailId, detailView>>
fields == <<name, imageUrl, baseTime, baseTemp, instructions>>
formVars == <<initialData, name, imageUrl, baseTime, baseTemp, instructions, loading,
              error, pc, pending, request, closed>>
storeVars == <<table>>
timerVars == <<timeLeft, isRunning, inputMinutes, inputSeconds, totalTimeRef,
               intervals, effectInterval>>
locationVars == <<lookups, errorMsg, denominated>>
otherVars == <<storeVars, timerVars, locationVars>>
vars == <<fnCall, settings, localElevation, recipes, listView, detailId, detailView,
          origin, remembered, initialData, name, imageUrl, baseTime, baseTemp,
          instructions, loading, error, pc, pending, request, closed,
          table, timeLeft, isRunning, inputMinutes, inputSeconds,
          totalTimeRef, intervals, effectInterval,
          lookups, errorMsg, denominated>>

-----------------------------------------------------------------------------
(* JavaScript values *)

Num(x) == [k |-> "num", v |-> x]
NaN == [k |-> "nan", v |-> 0]
Null == [k |-> "null", v |-> 0]

IsNum(x) == x.k = "num"

\* units of one foot in the fixed-point elevation
FP == 25000
\* 3.28084 feet per meter, in units of 1/FP foot
FeetPerMeterFP == 82021
\* hundredths of a minute per minute
TimeScale == 100

\* Math.round of the fraction n/d (d > 0): the nearest integer, a tie going up
MathRound(n, d) == (n + d \div 2) \div d

\* Math.floor of the fraction n/d (d > 0)
MathFloor(n, d) == n \div d

\* JavaScript truthiness of a number or null: null, NaN and 0 are falsy
Falsy(x) == x.k = "null" \/ x.k = "nan" \/ (x.k = "num" /\ x.v = 0)

-----------------------------------------------------------------------------
(* The adjustment functions (the same three in the list and detail screens) *)

\* elevation < feet, as JavaScript compares: false when elevation is NaN
ElevationBelow(elevation, feet) == IsNum(elevation) /\ elevation.v < feet * FP

calculateAdjustedTime_inclusiveUpper(base, elevation) ==
    IF ~IsNum(base) THEN NaN
    ELSE IF IsNum(elevation) /\ elevation.v <= 3000 * FP THEN Num(base.v * 100)
    ELSE IF IsNum(elevation) /\ elevation.v <= 5000 * FP THEN Num(base.v * 110)
    ELSE IF IsNum(elevation) /\ elevation.v <= 7000 * FP THEN Num(base.v * 115)
    ELSE Num(base.v * 120)

\* base (baseTime) in minutes, elevation in 1/FP feet; the result in hundredths
\* of a minute
calculateAdjustedTime(base, elevation) ==
    IF ~IsNum(base) THEN NaN
    ELSE IF ElevationBelow(elevation, 3000) THEN Num(base.v * 100)
    ELSE IF ElevationBelow(elevation, 5000) THEN Num(base.v * 110)
    ELSE IF ElevationBelow(elevation, 7000) THEN Num(base.v * 115)
    ELSE Num(base.v * 120)

\* base (baseTemp) in whole degrees Fahrenheit or null, elevation in 1/FP feet
calculateAdjustedTemp(base, elevation) ==
    IF Falsy(base) THEN Null
    ELSE IF ~IsNum(elevation) THEN NaN
    ELSE LET reduction == MathFloor(elevation.v, 1000 * FP) * 2
         IN  Num(base.v - reduction)

convertTemperature_truncate(temp, unit) ==
    IF temp.k = "null" THEN Null
    ELSE IF unit = "metric"
         THEN IF ~IsNum(temp) THEN NaN
              ELSE Num(MathFloor((temp.v - 32) * 5, 9))
         ELSE temp

convertTemperature(temp, unit) ==
    IF temp.k = "null" THEN Null
    ELSE IF unit = "metric"
         THEN IF ~IsNum(temp) THEN NaN
              ELSE Num(MathRound((temp.v - 32) * 5, 9))
         ELSE temp

-----------------------------------------------------------------------------
(* Text fields and the settings *)

\* The text of the elevation field: empty, the decimal numeral of a whole
\* number, the text "NaN" that NaN.toString() gives, or other text that is no
\* numeral (such as "-" or "1.2.3", which a numeric keyboard can type).
EmptyText == [k |-> "empty", v |-> 0]
JunkText == [k |-> "junk", v |-> 0]
NaNText == [k |-> "NaN", v |-> 0]
Numeral(n) == [k |-> "numeral", v |-> n]

\* Number(text): the empty string is 0, a numeral its value, anything else NaN
Number(text) ==
    CASE text.k = "empty" -> Num(0)
      [] text.k = "numeral" -> Num(text.v)
      [] OTHER -> NaN

\* value.toString() of a whole number or NaN
toString(value) == IF IsNum(value) THEN Numeral(value.v) ELSE NaNText

\* updateSettings(patch): the fields of patch replace those of the settings
updateSettings(current, patch) ==
    [f \in DOMAIN current |-> IF f \in DOMAIN patch THEN patch[f] ELSE current[f]]

\* elevationUnit === 'm' ? elevationValue * 3.28084 : elevationValue, in 1/FP feet
elevationInFeet_rounded(elevationUnit, elevationValue) ==
    IF ~IsNum(elevationValue) THEN NaN
    ELSE IF elevationUnit = "m"
         THEN Num(MathRound(elevationValue.v * FeetPerMeterFP, FP) * FP)
         ELSE Num(elevationValue.v * FP)

elevationInFeet(elevationUnit, elevationValue) ==
    IF ~IsNum(elevationValue) THEN NaN
    ELSE IF elevationUnit = "m"
         THEN Num(elevationValue.v * FeetPerMeterFP)
         ELSE Num(elevationValue.v * FP)

\* Math.round of an adjusted time in hundredths of a minute: whole minutes
roundMinutes(time) == IF IsNum(time) THEN Num(MathRound(time.v, TimeScale)) ELSE NaN

-----------------------------------------------------------------------------
(* The built-in recipes *)

\* An instruction is a sequence of pieces: plain text, or digits followed by
\* a degree sign and a unit letter ("350" "F" is the text 350°F).
Str(text) == [t |-> "str", s |-> text, deg |-> Null, letter |-> ""]
Deg(n, l) == [t |-> "deg", s |-> "", deg |-> n, letter |-> l]

builtinRecipes ==
    << [id |-> "1",
        name |-> "Classic Chocolate Chip Cookies",
        base_time |-> Num(12),
        base_temp |-> Num(350),
        instructions |->
            << <<Str("Preheat oven to "), Deg(Num(350), "F")>>,
               <<Str("Cream butter and sugars")>>,
               <<Str("Add eggs and vanilla")>>,
               <<Str("Mix in dry ingredients")>>,
               <<Str("Form cookies and place on baking sheet")>>,
               <<Str("Bake for 12 minutes or until edges are lightly browned")>> >>],
       [id |-> "2",
        name |-> "Artisan Sourdough Bread",
        base_time |-> Num(45),
        base_temp |-> Num(450),
        instructions |->
            << <<Str("Preheat oven to "), Deg(Num(450), "F")>>,
               <<Str("Score the bread")>>,
               <<Str("Place in preheated Dutch oven")>>,
               <<Str("Bake covered for 30 minutes")>>,
               <<Str("Remove lid and bake for additional 15 minutes")>> >>] >>

\* RecipesScreen's defaultRecipes and RecipeScreen's recipes: the same two records
defaultRecipes == builtinRecipes
detailRecipes == builtinRecipes

-----------------------------------------------------------------------------
(* RecipesScreen: one card per recipe *)

unitLetter(temperatureUnit) == IF temperatureUnit = "imperial" THEN "F" ELSE "C"

\* formatTemperature of the list: '' for null, else ' at <temp>°<letter>'
listFormatTemperature(temp, temperatureUnit) ==
    IF temp.k = "null"
    THEN [text |-> "", temp |-> Null, letter |-> ""]
    ELSE [text |-> " at ", temp |-> temp, letter |-> unitLetter(temperatureUnit)]

renderCard_convertFirst(recipe, s) ==
    LET elevationValue == Number(s.elevation)
        feet == elevationInFeet(s.elevationUnit, elevationValue)
        adjustedTime == roundMinutes(calculateAdjustedTime(recipe.base_time, feet))
        adjustedTemp ==
            calculateAdjustedTemp(convertTemperature(recipe.base_temp, s.temperatureUnit),
                                  feet)
        displayTemp == adjustedTemp
    IN  [id |-> recipe.id,
         elevationValue |-> elevationValue,
         elevationInFeet |-> feet,
         adjustedTime |-> adjustedTime,
         adjustedTemp |-> adjustedTemp,
         displayTemp |-> displayTemp,
         recipeTime |-> listFormatTemperature(displayTemp, s.temperatureUnit),
         adjustedNote |-> IF Falsy(recipe.base_temp)
                          THEN [shown |-> FALSE, value |-> Null, unit |-> ""]
                          ELSE [shown |-> TRUE, value |-> elevationValue,
                                unit |-> s.elevationUnit]]

renderCard(recipe, s) ==
    LET elevationValue == Number(s.elevation)
        feet == elevationInFeet(s.elevationUnit, elevationValue)
        adjustedTime == roundMinutes(calculateAdjustedTime(recipe.base_time, feet))
        adjustedTemp == calculateAdjustedTemp(recipe.base_temp, feet)
        displayTemp == convertTemperature(adjustedTemp, s.temperatureUnit)
    IN  [id |-> recipe.id,
         elevationValue |-> elevationValue,
         elevationInFeet |-> feet,
         adjustedTime |-> adjustedTime,
         adjustedTemp |-> adjustedTemp,
         displayTemp |-> displayTemp,
         recipeTime |-> listFormatTemperature(displayTemp, s.temperatureUnit),
         adjustedNote |-> IF Falsy(recipe.base_temp)
                          THEN [shown |-> FALSE, value |-> Null, unit |-> ""]
                          ELSE [shown |-> TRUE, value |-> elevationValue,
                                unit |-> s.elevationUnit]]

\* filteredRecipes.map(...) with the search field empty: every recipe
renderList(rs, s) == [i \in 1 .. Len(rs) |-> renderCard(rs[i], s)]

-----------------------------------------------------------------------------
(* RecipeScreen: the detail of one recipe *)

\* formatTemperature of the detail screen: 'N/A' for null, else '<temp>°<letter>'
detailFormatTemperature(temp, temperatureUnit) ==
    IF temp.k = "null"
    THEN [text |-> "N/A", temp |-> Null, letter |-> ""]
    ELSE [text |-> "", temp |-> temp, letter |-> unitLetter(temperatureUnit)]

\* instruction.includes('°F')
includesDegF(instruction) ==
    \E i \in 1 .. Len(instruction) :
        instruction[i].t = "deg" /\ instruction[i].letter = "F"

\* instruction.replace(/\d+°F/, piece): the first match only
replaceFirstDegF(instruction, piece) ==
    LET hits == {i \in 1 .. Len(instruction) :
                    /\ instruction[i].t = "deg"
                    /\ instruction[i].letter = "F"
                    /\ IsNum(instruction[i].deg)
                    /\ instruction[i].deg.v >= 0}
    IN  IF hits = {} THEN instruction
        ELSE LET first == CHOOSE i \in hits : \A j \in hits : i <= j
             IN  [instruction EXCEPT ![first] = piece]

updatedInstructions(recipe, adjustedTemp, temperatureUnit) ==
    [n \in 1 .. Len(recipe.instructions) |->
        LET instruction == recipe.instructions[n]
        IN  IF ~Falsy(recipe.base_temp) /\ includesDegF(instruction)
            THEN LET temp == convertTemperature(adjustedTemp, temperatureUnit)
                 IN  replaceFirstDegF(instruction,
                                      Deg(temp, unitLetter(temperatureUnit)))
            ELSE instruction]

NoRoute == "none"
NoView == [screen |-> "none"]
NotFoundView == [screen |-> "Recipe not found"]

\* a detail screen that prints the adjusted time as computed, fraction and all
renderRecipe_unroundedTime(recipe, s) ==
    LET elevationValue == Number(s.elevation)
        feet == elevationInFeet(s.elevationUnit, elevationValue)
        adjustedTime == calculateAdjustedTime(recipe.base_time, feet)
        adjustedTemp == calculateAdjustedTemp(recipe.base_temp, feet)
        displayTemp == convertTemperature(adjustedTemp, s.temperatureUnit)
    IN  [screen |-> "recipe",
         id |-> recipe.id,
         elevationValue |-> elevationValue,
         elevationInFeet |-> feet,
         adjustedTime |-> adjustedTime,
         adjustedTemp |-> adjustedTemp,
         displayTemp |-> displayTemp,
         shownAdjustedTime |->
             IF IsNum(adjustedTime) /\ adjustedTime.v % TimeScale = 0
             THEN roundMinutes(adjustedTime) ELSE adjustedTime,
         temperatureRows |-> ~Falsy(recipe.base_temp),
         shownBaseTemp |->
             detailFormatTemperature(
                 convertTemperature(recipe.base_temp, s.temperatureUnit),
                 s.temperatureUnit),
         shownAdjustedTemp |-> detailFormatTemperature(displayTemp, s.temperatureUnit),
         instructions |-> updatedInstructions(recipe, adjustedTemp, s.temperatureUnit)]

renderRecipe(recipe, s) ==
    LET elevationValue == Number(s.elevation)
        feet == elevationInFeet(s.elevationUnit, elevationValue)
        adjustedTime == calculateAdjustedTime(recipe.base_time, feet)
        adjustedTemp == calculateAdjustedTemp(recipe.base_temp, feet)
        displayTemp == convertTemperature(adjustedTemp, s.temperatureUnit)
    IN  [screen |-> "recipe",
         id |-> recipe.id,
         elevationValue |-> elevationValue,
         elevationInFeet |-> feet,
         adjustedTime |-> adjustedTime,
         adjustedTemp |-> adjustedTemp,
         displayTemp |-> displayTemp,
         shownAdjustedTime |-> roundMinutes(adjustedTime),
         temperatureRows |-> ~Falsy(recipe.base_temp),
         shownBaseTemp |->
             detailFormatTemperature(
                 convertTemperature(recipe.base_temp, s.temperatureUnit),
                 s.temperatureUnit),
         shownAdjustedTemp |-> detailFormatTemperature(displayTemp, s.temperatureUnit),
         instructions |-> updatedInstructions(recipe, adjustedTemp, s.temperatureUnit)]

\* recipes.find(r => r.id === id): the first recipe with the id, if any
findRecipe(id) ==
    LET found == {i \in 1 .. Len(detailRecipes) : detailRecipes[i].id = id}
    IN  IF found = {} THEN {}
        ELSE {detailRecipes[CHOOSE i \in found : \A j \in found : i <= j]}

\* a detail screen that keeps the temperature it computed when last rendered
renderDetail_staleMemo(id, s) ==
    IF id = NoRoute THEN NoView
    ELSE IF findRecipe(id) = {} THEN NotFoundView
    ELSE LET fresh == renderRecipe(CHOOSE r \in findRecipe(id) : TRUE, s)
         IN  IF detailView.screen = "recipe" /\ detailView.id = id
             THEN [fresh EXCEPT !.adjustedTemp = detailView.adjustedTemp,
                                !.displayTemp = detailView.displayTemp]
             ELSE fresh

renderDetail(id, s) ==
    IF id = NoRoute THEN NoView
    ELSE IF findRecipe(id) = {} THEN NotFoundView
    ELSE renderRecipe(CHOOSE r \in findRecipe(id) : TRUE, s)

-----------------------------------------------------------------------------
(* SettingsScreen handlers.  A change of the settings context re-renders the *)
(* screens that read it, so each handler ends with both screens rendered     *)
(* from the new settings.                                                    *)

rerender(newSettings) ==
    /\ listView' = renderList(recipes, newSettings)
    /\ detailView' = renderDetail(detailId, newSettings)

toggleTemperatureUnit ==
    LET newSettings ==
            updateSettings(settings,
                [temperatureUnit |->
                    IF settings.temperatureUnit = "imperial" THEN "metric"
                                                            ELSE "imperial"])
    IN  /\ settings' = newSettings
        /\ rerender(newSettings)
        /\ UNCHANGED <<localElevation, recipes, detailId>>

convertedElevation_swapped(newUnit, value) ==
    IF ~IsNum(value) THEN NaN
    ELSE IF newUnit = "ft"
         THEN Num(MathRound(value.v * FP, FeetPerMeterFP))
         ELSE Num(MathRound(value.v * FeetPerMeterFP, FP))

\* Math.round(value * 3.28084) for the new unit ft, Math.round(value / 3.28084) for m
convertedElevation(newUnit, value) ==
    IF ~IsNum(value) THEN NaN
    ELSE IF newUnit = "ft"
         THEN Num(MathRound(value.v * FeetPerMeterFP, FP))
         ELSE Num(MathRound(value.v * FP, FeetPerMeterFP))

toggleElevationUnit ==
    LET newUnit == IF settings.elevationUnit = "ft" THEN "m" ELSE "ft"
        value == Number(localElevation)
        converted == convertedElevation(newUnit, value)
        newSettings ==
            updateSettings(settings,
                [elevationUnit |-> newUnit, elevation |-> toString(converted)])
    IN  /\ localElevation' = toString(converted)
        /\ settings' = newSettings
        /\ rerender(newSettings)
        /\ UNCHANGED <<recipes, detailId>>

handleElevationChange(value) ==
    LET newSettings == updateSettings(settings, [elevation |-> value])
    IN  /\ localElevation' = value
        /\ settings' = newSettings
        /\ rerender(newSettings)
        /\ UNCHANGED <<recipes, detailId>>

-----------------------------------------------------------------------------
(* Navigation: a card pressed (router.push of /recipe/<id>) or a link opened *)

openRecipe(id) ==
    /\ detailId' = id
    /\ detailView' = renderDetail(id, settings)
    /\ UNCHANGED <<settings, localElevation, recipes, listView>>

-----------------------------------------------------------------------------
(* The computations a render made: for each recipe shown, the four inputs   *)
(* (base time, base temperature, elevation in feet, temperature unit) and    *)
(* the two results (adjusted time, adjusted display temperature).            *)

NoFrame == [screen |-> "none"]

computation(screen, recipe, view, temperatureUnit) ==
    [screen |-> screen,
     baseTime |-> recipe.base_time,
     baseTemp |-> recipe.base_temp,
     elevationInFeet |-> view.elevationInFeet,
     temperatureUnit |-> temperatureUnit,
     adjustedTime |-> view.adjustedTime,
     displayTemp |-> view.displayTemp]

computations(rs, lv, dv, s) ==
    {computation("list", rs[i], lv[i], s.temperatureUnit) : i \in 1 .. Len(lv)} \cup
    (IF dv.screen = "recipe"
     THEN {computation("recipe", r, dv, s.temperatureUnit) : r \in findRecipe(dv.id)}
     ELSE {})

-----------------------------------------------------------------------------
(* RecipeForm: texts.  A text is a sequence of one-character strings.        *)

Digits == <<"0", "1", "2", "3", "4", "5", "6", "7", "8", "9">>
IsDigit(c) == \E d \in 1 .. 10 : Digits[d] = c
DigitValue(c) == (CHOOSE d \in 1 .. 10 : Digits[d] = c) - 1
IsSpace(c) == c = " "

RECURSIVE trimStart(_)
trimStart(text) ==
    IF text # <<>> /\ IsSpace(Head(text)) THEN trimStart(Tail(text)) ELSE text

RECURSIVE trimEnd(_)
trimEnd(text) ==
    IF text # <<>> /\ IsSpace(text[Len(text)])
    THEN trimEnd(SubSeq(text, 1, Len(text) - 1))
    ELSE text

\* text.trim()
trim(text) == trimEnd(trimStart(text))

\* the value of the longest prefix of digits of text, continuing from acc
RECURSIVE digitsValue(_, _)
digitsValue(text, acc) ==
    IF text # <<>> /\ IsDigit(Head(text))
    THEN digitsValue(Tail(text), acc * 10 + DigitValue(Head(text)))
    ELSE acc

\* parseInt(text): leading spaces skipped, an optional sign, then the longest
\* run of digits; NaN when no digit follows
parseInt(text) ==
    LET t == trimStart(text)
        negative == t # <<>> /\ Head(t) = "-"
        body == IF t # <<>> /\ Head(t) \in {"-", "+"} THEN Tail(t) ELSE t
    IN  IF body = <<>> \/ ~IsDigit(Head(body)) THEN NaN
        ELSE IF negative THEN Num(0 - digitsValue(body, 0))
        ELSE Num(digitsValue(body, 0))

\* n.toString() of a whole number
RECURSIVE naturalText(_)
naturalText(n) ==
    IF n < 10 THEN <<Digits[n + 1]>>
    ELSE Append(naturalText(n \div 10), Digits[(n % 10) + 1])

numberText(n) == IF n < 0 THEN <<"-">> \o naturalText(0 - n) ELSE naturalText(n)

\* the steps as they stand in the form, blank ones included
nonBlank_unfiltered(steps) == steps

\* instructions.filter(i => i.trim()): the steps that are not blank, in order
RECURSIVE nonBlank(_)
nonBlank(steps) ==
    IF steps = <<>> THEN <<>>
    ELSE IF trim(Head(steps)) # <<>> THEN <<Head(steps)>> \o nonBlank(Tail(steps))
    ELSE nonBlank(Tail(steps))

-----------------------------------------------------------------------------
(* RecipeForm: state, validation and the field handlers *)

NoData == [id |-> ""]
NoError == "null"

\* What an awaited call hands back as its error, and so what handleSubmit
\* throws: nothing, an instance of Error with a message, or another object
\* that carries a message (an error record parsed from a response body).
NoThrow == [thrown |-> FALSE, instanceOfError |-> FALSE, message |-> ""]
ErrorInstance(message) == [thrown |-> TRUE, instanceOfError |-> TRUE, message |-> message]
ErrorObject(message) == [thrown |-> TRUE, instanceOfError |-> FALSE, message |-> message]

\* catch (err): err instanceof Error ? err.message : 'An error occurred'
catchMessage(err) == IF err.instanceOfError THEN err.message ELSE "An error occurred"
NoRequest == [op |-> "none"]
NoFields == [name |-> <<>>]

\* useState(initialData?.x ?? ...) for each field
InitFormWith(data) ==
    /\ initialData = data
    /\ name = (IF data = NoData THEN <<>> ELSE data.name)
    /\ imageUrl = (IF data = NoData THEN <<>> ELSE data.image_url)
    /\ baseTime = (IF data = NoData THEN <<>> ELSE numberText(data.base_time.v))
    /\ baseTemp = (IF data = NoData \/ data.base_temp.k = "null" THEN <<>>
                   ELSE numberText(data.base_temp.v))
    /\ instructions = (IF data = NoData THEN << <<>> >> ELSE data.instructions)
    /\ loading = FALSE
    /\ error = NoError
    /\ pc = "idle"
    /\ pending = NoFields
    /\ request = NoRequest
    /\ closed = FALSE

\* validateForm over the field values f: the first failing rule's message
validateForm(f) ==
    IF trim(f.name) = <<>> THEN "Recipe name is required"
    ELSE IF trim(f.imageUrl) = <<>> THEN "Image URL is required"
    ELSE IF trim(f.baseTime) = <<>> \/ ~IsNum(parseInt(f.baseTime))
         THEN "Valid cooking time is required"
    ELSE IF trim(f.baseTemp) # <<>> /\ ~IsNum(parseInt(f.baseTemp))
         THEN "Temperature must be a valid number"
    ELSE IF ~\E i \in 1 .. Len(f.instructions) : trim(f.instructions[i]) # <<>>
         THEN "At least one instruction is required"
    ELSE NoError

\* The fields stay editable while a submission is in flight, but handleSubmit
\* works on the values of the render in which the button was pressed (kept
\* in pending), and an edit touches neither loading nor error: edits are
\* taken between submissions.
Editable == pc = "idle" /\ ~closed

setName(text) ==
    /\ Editable
    /\ name' = text
    /\ UNCHANGED <<initialData, imageUrl, baseTime, baseTemp, instructions, loading,
                   error, pc, pending, request, closed>>

setImageUrl(text) ==
    /\ Editable
    /\ imageUrl' = text
    /\ UNCHANGED <<initialData, name, baseTime, baseTemp, instructions, loading,
                   error, pc, pending, request, closed>>

setBaseTime(text) ==
    /\ Editable
    /\ baseTime' = text
    /\ UNCHANGED <<initialData, name, imageUrl, baseTemp, instructions, loading,
                   error, pc, pending, request, closed>>

setBaseTemp(text) ==
    /\ Editable
    /\ baseTemp' = text
    /\ UNCHANGED <<initialData, name, imageUrl, baseTime, instructions, loading,
                   error, pc, pending, request, closed>>

addInstruction ==
    /\ Editable
    /\ instructions' = Append(instructions, <<>>)
    /\ UNCHANGED <<initialData, name, imageUrl, baseTime, baseTemp, loading,
                   error, pc, pending, request, closed>>

removeInstruction(index) ==
    /\ Editable
    /\ index \in 1 .. Len(instructions)
    /\ instructions' = SubSeq(instructions, 1, index - 1)
                           \o SubSeq(instructions, index + 1, Len(instructions))
    /\ UNCHANGED <<initialData, name, imageUrl, baseTime, baseTemp, loading,
                   error, pc, pending, request, closed>>

updateInstruction(index, value) ==
    /\ Editable
    /\ index \in 1 .. Len(instructions)
    /\ instructions' = [instructions EXCEPT ![index] = value]
    /\ UNCHANGED <<initialData, name, imageUrl, baseTime, baseTemp, loading,
                   error, pc, pending, request, closed>>

-----------------------------------------------------------------------------
(* RecipeForm.handleSubmit, in its three stretches between the awaits *)

\* the press: validation; on success loading is set and getUser is awaited
handleSubmit ==
    /\ Editable
    /\ ~loading
    /\ LET f == [name |-> name, imageUrl |-> imageUrl, baseTime |-> baseTime,
                 baseTemp |-> baseTemp, instructions |-> instructions]
           validationError == validateForm(f)
       IN  IF validationError # NoError
           THEN /\ error' = validationError
                /\ loading' = FALSE
                /\ UNCHANGED <<pc, pending>>
           ELSE /\ loading' = TRUE
                /\ error' = NoError
                /\ pc' = "getUser"
                /\ pending' = f
    /\ UNCHANGED <<initialData, fields, request, closed>>

\* recipeData as built from the submitted field values and the signed-in user
recipeData(f, userId) ==
    [name |-> trim(f.name),
     image_url |-> trim(f.imageUrl),
     base_time |-> parseInt(f.baseTime),
     base_temp |-> IF trim(f.baseTemp) # <<>> THEN parseInt(f.baseTemp) ELSE Null,
     instructions |-> nonBlank(f.instructions),
     user_id |-> userId]

\* supabase.auth.getUser() returned: an error, no user, or the user; with a
\* user the record is built and the update or insert is sent
getUserReturned(userError, user) ==
    /\ pc = "getUser"
    /\ IF userError.thrown
       THEN /\ error' = catchMessage(userError)
            /\ loading' = FALSE
            /\ pc' = "idle"
            /\ pending' = NoFields
            /\ UNCHANGED request
       ELSE IF user = "null"
       THEN /\ error' = catchMessage(ErrorInstance("Please sign in to continue"))
            /\ loading' = FALSE
            /\ pc' = "idle"
            /\ pending' = NoFields
            /\ UNCHANGED request
       ELSE /\ request' =
                 IF initialData # NoData /\ initialData.id # ""
                 THEN [op |-> "update", data |-> recipeData(pending, user),
                       eq_id |-> initialData.id, eq_user_id |-> user]
                 ELSE [op |-> "insert", data |-> recipeData(pending, user),
                       eq_id |-> "", eq_user_id |-> ""]
            /\ pc' = "store"
            /\ UNCHANGED <<error, loading, pending>>
    /\ UNCHANGED <<initialData, fields, closed>>

\* the update or insert returned: with an error it is shown, without one
\* onClose is called; loading is cleared either way
storeReturned(storeError) ==
    /\ pc = "store"
    /\ IF storeError.thrown
       THEN error' = catchMessage(storeError) /\ UNCHANGED closed
       ELSE closed' = TRUE /\ UNCHANGED error
    /\ loading' = FALSE
    /\ pc' = "idle"
    /\ pending' = NoFields
    /\ request' = NoRequest
    /\ UNCHANGED <<initialData, fields>>

-----------------------------------------------------------------------------
(* The recipes table and its row level security policies.  A request reaches *)
(* the table with auth.uid(): the id of the user whose token it carries, or  *)
(* "null" when it carries none.  A row is [present, id, data, insertedBy]:   *)
(* data holds the columns (user_id among them); insertedBy is no column, it  *)
(* records on whose behalf the row was inserted.                             *)

RowIds == {"r1", "r2"}
NoRow == [present |-> FALSE]
Anyone == "*"

\* TO authenticated: the request carries a user's token
authenticated(uid) == uid # "null"

\* "Users can create their own recipes": WITH CHECK (auth.uid() = user_id)
insertCheck(uid, data) == authenticated(uid) /\ uid = data.user_id

\* "Users can update their own recipes": USING (auth.uid() = user_id)
updateUsing(uid, row) == authenticated(uid) /\ uid = row.data.user_id

\* an update policy that lets any new row pass
updateCheck_anyRow(uid, data) == authenticated(uid)

\* "Users can update their own recipes": WITH CHECK (auth.uid() = user_id)
updateCheck(uid, data) == authenticated(uid) /\ uid = data.user_id

\* "Users can delete their own recipes": USING (auth.uid() = user_id)
deleteUsing(uid, row) == authenticated(uid) /\ uid = row.data.user_id

\* .eq('id', v) and .eq('user_id', v) of a request; Anyone stands for no filter
matches(row, eq_id, eq_user_id) ==
    /\ row.present
    /\ eq_id \in {Anyone, row.id}
    /\ eq_user_id \in {Anyone, row.data.user_id}

\* INSERT: the row gets a fresh id (gen_random_uuid) when the check passes
insertRows(uid, data, id) ==
    IF insertCheck(uid, data)
    THEN [table |-> [table EXCEPT ![id] = [present |-> TRUE, id |-> id, data |-> data,
                                          insertedBy |-> uid]],
          rows |-> {id}, failed |-> FALSE]
    ELSE [table |-> table, rows |-> {}, failed |-> TRUE]

\* UPDATE: the rows that the filters and the USING clause let through get the
\* new columns; a new row that fails the check aborts the whole statement
updateRows(uid, data, eq_id, eq_user_id) ==
    LET hit == {id \in RowIds : /\ matches(table[id], eq_id, eq_user_id)
                                /\ updateUsing(uid, table[id])}
    IN  IF hit # {} /\ ~updateCheck(uid, data)
        THEN [table |-> table, rows |-> {}, failed |-> TRUE]
        ELSE [table |-> [id \in RowIds |->
                            IF id \in hit THEN [table[id] EXCEPT !.data = data]
                            ELSE table[id]],
              rows |-> hit, failed |-> FALSE]

\* DELETE: the rows that the filters and the USING clause let through go
deleteRows(uid, eq_id, eq_user_id) ==
    LET hit == {id \in RowIds : /\ matches(table[id], eq_id, eq_user_id)
                                /\ deleteUsing(uid, table[id])}
    IN  [table |-> [id \in RowIds |-> IF id \in hit THEN NoRow ELSE table[id]],
         rows |-> hit, failed |-> FALSE]

\* requests of any client of the store, sent with the token of uid
clientInsert(uid, data) ==
    \E id \in RowIds :
        /\ ~table[id].present
        /\ table' = insertRows(uid, data, id).table

clientUpdate(uid, data, eq_id, eq_user_id) ==
    table' = updateRows(uid, data, eq_id, eq_user_id).table

clientDelete(uid, eq_id, eq_user_id) ==
    table' = deleteRows(uid, eq_id, eq_user_id).table

\* the form's request reaches the table and its answer reaches handleSubmit
formRequestServed(uid, storeError) ==
    /\ pc = "store"
    /\ IF request.op = "update"
       THEN LET outcome == updateRows(uid, request.data, request.eq_id,
                                      request.eq_user_id)
            IN  /\ table' = outcome.table
                /\ storeError.thrown = outcome.failed
       ELSE \E id \in RowIds :
                /\ ~table[id].present
                /\ LET outcome == insertRows(uid, request.data, id)
                   IN  /\ table' = outcome.table
                       /\ storeError.thrown = outcome.failed
    /\ storeReturned(storeError)

StoreAtRest == table = [id \in RowIds |-> NoRow]

-----------------------------------------------------------------------------
(* TimerScreen.  The state changes of one handler or callback are committed *)
(* by one render, and the countdown effect of a render that changed          *)
(* isRunning or timeLeft runs with it, before the next press or tick is      *)
(* handled.  intervals holds the ids of the intervals set and not cleared.   *)

NoInterval == 0

\* a countdown effect whose cleanup clears nothing
runEffect_noCleanup(running, left) ==
    IF running /\ left > 0
    THEN LET id == CHOOSE n \in 1 .. Cardinality(intervals) + 1 : n \notin intervals
         IN  [intervals |-> intervals \cup {id}, effectInterval |-> id]
    ELSE [intervals |-> intervals, effectInterval |-> NoInterval]

\* the countdown effect for isRunning and timeLeft as rendered: the cleanup
\* of its previous run (clearInterval), then setInterval if the timer runs
runEffect(running, left) ==
    LET cleared == intervals \ {effectInterval}
    IN  IF running /\ left > 0
        THEN LET id == CHOOSE n \in 1 .. Cardinality(cleared) + 1 : n \notin cleared
             IN  [intervals |-> cleared \cup {id}, effectInterval |-> id]
        ELSE [intervals |-> cleared, effectInterval |-> NoInterval]

\* a render commits new state; the countdown effect runs again if isRunning
\* or timeLeft changed ([isRunning, timeLeft] are its dependencies)
commit(left, running, minutes, seconds) ==
    /\ timeLeft' = left
    /\ isRunning' = running
    /\ inputMinutes' = minutes
    /\ inputSeconds' = seconds
    /\ IF left # timeLeft \/ running # isRunning
       THEN LET ran == runEffect(running, left)
            IN  /\ intervals' = ran.intervals
                /\ effectInterval' = ran.effectInterval
       ELSE UNCHANGED <<intervals, effectInterval>>

\* the input fields are on screen while timeLeft === 0
setInputMinutes(text) ==
    /\ timeLeft = 0
    /\ commit(timeLeft, isRunning, text, inputSeconds)
    /\ UNCHANGED totalTimeRef

setInputSeconds(text) ==
    /\ timeLeft = 0
    /\ commit(timeLeft, isRunning, inputMinutes, text)
    /\ UNCHANGED totalTimeRef

\* (minutes * 60) + seconds of the two fields, an empty field counting as '0'
totalSeconds ==
    LET minutes == parseInt(IF inputMinutes = <<>> THEN <<"0">> ELSE inputMinutes)
        seconds == parseInt(IF inputSeconds = <<>> THEN <<"0">> ELSE inputSeconds)
    IN  IF IsNum(minutes) /\ IsNum(seconds) THEN Num(minutes.v * 60 + seconds.v)
        ELSE NaN

startTimer ==
    IF IsNum(totalSeconds) /\ totalSeconds.v > 0
    THEN /\ totalTimeRef' = totalSeconds.v
         /\ commit(totalSeconds.v, TRUE, <<>>, <<>>)
    ELSE UNCHANGED timerVars

\* a toggle that winds a running timer back to its total as it pauses it
toggleTimer_rewinds ==
    IF ~isRunning /\ timeLeft = 0
    THEN startTimer
    ELSE /\ commit(IF isRunning THEN totalTimeRef ELSE timeLeft, ~isRunning,
                   inputMinutes, inputSeconds)
         /\ UNCHANGED totalTimeRef

toggleTimer ==
    IF ~isRunning /\ timeLeft = 0
    THEN startTimer
    ELSE /\ commit(timeLeft, ~isRunning, inputMinutes, inputSeconds)
         /\ UNCHANGED totalTimeRef

resetTimer ==
    /\ totalTimeRef' = 0
    /\ commit(0, FALSE, <<>>, <<>>)

\* a tick that takes two seconds off
tick_skipsASecond(id) ==
    /\ id \in intervals
    /\ commit(timeLeft - 2, IF timeLeft <= 1 THEN FALSE ELSE isRunning,
              inputMinutes, inputSeconds)
    /\ UNCHANGED totalTimeRef

\* a tick that leaves isRunning alone
tick_neverStops(id) ==
    /\ id \in intervals
    /\ commit(timeLeft - 1, isRunning, inputMinutes, inputSeconds)
    /\ UNCHANGED totalTimeRef

\* an interval that is set fires: setTimeLeft(time => ...), with
\* setIsRunning(false) when time <= 1
tick(id) ==
    /\ id \in intervals
    /\ commit(timeLeft - 1, IF timeLeft <= 1 THEN FALSE ELSE isRunning,
              inputMinutes, inputSeconds)
    /\ UNCHANGED totalTimeRef

\* the screen after mounting: the effect has run and set no interval
TimerAtRest ==
    /\ timeLeft = 0
    /\ isRunning = FALSE
    /\ inputMinutes = <<>>
    /\ inputSeconds = <<>>
    /\ totalTimeRef = 0
    /\ intervals = {}
    /\ effectInterval = NoInterval

-----------------------------------------------------------------------------
(* SettingsScreen: the location lookup.  The effect runs on mount and after  *)
(* every change of elevationUnit; off the web it starts a lookup that awaits *)
(* the permission, then the position, and keeps the elevationUnit of the     *)
(* render that started it.  lookups lists the lookups under way.             *)
(* denominated follows the stored elevation number: the unit in which it was *)
(* typed, converted to, or computed ("neither" for a number converted from   *)
(* another unit than its own).                                               *)

NoMessage == "null"
webMessage == "Elevation detection is not available on web."

\* Platform.OS === 'web': only there the message is the web message
onWeb == errorMsg = webMessage

\* the effect body, up to the first await, for a render with elevationUnit unit
lookupEffect(unit) ==
    IF onWeb
    THEN UNCHANGED <<lookups, errorMsg>>
    ELSE /\ lookups' = Append(lookups, [unit |-> unit, stage |-> "permission"])
         /\ UNCHANGED errorMsg

without(seq, i) == SubSeq(seq, 1, i - 1) \o SubSeq(seq, i + 1, Len(seq))

\* requestForegroundPermissionsAsync() returned for lookup i
permissionReturned(i, status) ==
    /\ i \in 1 .. Len(lookups)
    /\ lookups[i].stage = "permission"
    /\ IF status # "granted"
       THEN /\ errorMsg' = "Permission to access location was denied"
            /\ lookups' = without(lookups, i)
       ELSE /\ lookups' = [lookups EXCEPT ![i].stage = "position"]
            /\ UNCHANGED errorMsg
    /\ UNCHANGED <<displayVars, denominated>>

\* the value a lookup started under unit computes from a whole altitude
lookupValue(unit, altitudeInMeters) ==
    IF unit = "ft"
    THEN Num(MathRound(altitudeInMeters.v * FeetPerMeterFP, FP))
    ELSE altitudeInMeters

\* getCurrentPositionAsync() returned for lookup i: it threw, or it gave a
\* position whose altitude may be null or 0
positionReturned(i, threw, altitude) ==
    /\ i \in 1 .. Len(lookups)
    /\ lookups[i].stage = "position"
    /\ lookups' = without(lookups, i)
    /\ IF threw
       THEN /\ errorMsg' = "Could not detect elevation"
            /\ UNCHANGED <<displayVars, denominated>>
       ELSE IF Falsy(altitude)
       THEN UNCHANGED <<errorMsg, displayVars, denominated>>
       ELSE LET value == lookupValue(lookups[i].unit, altitude)
                newSettings == updateSettings(settings, [elevation |-> toString(value)])
            IN  /\ localElevation' = toString(value)
                /\ settings' = newSettings
                /\ rerender(newSettings)
                /\ denominated' = lookups[i].unit
                /\ UNCHANGED <<recipes, detailId, errorMsg>>

\* no lookup under way and no message; the number is in the stored unit
LocationAtRest(unit) ==
    /\ lookups = <<>>
    /\ errorMsg = webMessage
    /\ denominated = unit

-----------------------------------------------------------------------------
(* Inputs of the adjustment functions *)

MaxBaseTime == 2
MaxElevK == 16
ElevStep == 500
EdgeEps == 25
MaxTempK == 9
TempStep == 50
MaxReduction == 8

\* base times: around zero, the two built-in recipes (12, 45) and 100
BaseTimeArgs == {Num(t) : t \in (-1 .. MaxBaseTime) \cup {12, 45, 100}}

\* elevations in 1/FP feet: every multiple of ElevStep feet from below sea
\* level upward, each with its two neighbours EdgeEps/FP feet away, and NaN
ElevationArgs ==
    {Num(k * ElevStep * FP + d) : k \in -1 .. MaxElevK, d \in {-EdgeEps, 0, EdgeEps}}
        \cup {NaN}

BaseTempArgs == {Null} \cup {Num(TempStep * k) : k \in 0 .. MaxTempK}

TempArgs ==
    {Null, NaN} \cup
    {Num(TempStep * k - 2 * j) : k \in 0 .. MaxTempK, j \in -1 .. MaxReduction}

Units == {"imperial", "metric"}

ElevationUnits == {"ft", "m"}

MaxOffset == 1
MaxToggles == 3

\* whole numbers typed in the elevation field: sea level, the band edges in
\* feet (3000, 5000, 7000) and in meters (914, 1524, 2134), 1500 and 3500,
\* each with its neighbours
TypedValues ==
    {e + d : e \in {0, 3000, 5000, 7000, 914, 1524, 2134, 1500, 3500},
             d \in -MaxOffset .. MaxOffset}

TypedTexts == {EmptyText, JunkText} \cup {Numeral(n) : n \in TypedValues}

RouteIds == {"1", "2", "3"}

\* the settings a session can start from: either unit, the elevation empty or a numeral
SettingsStates ==
    [temperatureUnit : Units, elevationUnit : ElevationUnits,
     elevation : TypedTexts \ {JunkText}]

Min(a, b) == IF a < b THEN a ELSE b

-----------------------------------------------------------------------------
(* Specification SpecFn: the three functions applied to drawn arguments *)

NoCall == [fn |-> "none", a |-> Null, b |-> Null, unit |-> "imperial", ret |-> Null]

\* the screens at rest while the functions are exercised
restSettings ==
    [temperatureUnit |-> "imperial", elevationUnit |-> "ft", elevation |-> EmptyText]

InitDisplayAt(s) ==
    /\ settings = s
    /\ localElevation = s.elevation
    /\ recipes = defaultRecipes
    /\ listView = renderList(defaultRecipes, s)
    /\ detailId = NoRoute
    /\ detailView = NoView
    /\ origin = [unit |-> s.elevationUnit, text |-> s.elevation, toggles |-> 0]
    /\ remembered = NoFrame
    /\ InitFormWith(NoData)
    /\ StoreAtRest
    /\ TimerAtRest
    /\ LocationAtRest(s.elevationUnit)

InitFn ==
    /\ fnCall = NoCall
    /\ InitDisplayAt(restSettings)

CallCalculateAdjustedTime ==
    \E t \in BaseTimeArgs, e \in ElevationArgs :
        fnCall' = [fn |-> "calculateAdjustedTime", a |-> t, b |-> e,
                   unit |-> "imperial", ret |-> calculateAdjustedTime(t, e)]

CallCalculateAdjustedTemp ==
    \E b \in BaseTempArgs, e \in ElevationArgs :
        fnCall' = [fn |-> "calculateAdjustedTemp", a |-> b, b |-> e,
                   unit |-> "imperial", ret |-> calculateAdjustedTemp(b, e)]

CallConvertTemperature ==
    \E t \in TempArgs, u \in Units :
        fnCall' = [fn |-> "convertTemperature", a |-> t, b |-> Null,
                   unit |-> u, ret |-> convertTemperature(t, u)]

NextFn ==
    \/ (CallCalculateAdjustedTime /\ UNCHANGED <<displayVars, origin, remembered, formVars, otherVars>>)
    \/ (CallCalculateAdjustedTemp /\ UNCHANGED <<displayVars, origin, remembered, formVars, otherVars>>)
    \/ (CallConvertTemperature /\ UNCHANGED <<displayVars, origin, remembered, formVars, otherVars>>)

SpecFn == InitFn /\ [][NextFn]_vars

-----------------------------------------------------------------------------
(* Specification SpecDisplay: the settings edited and the screens rendered.  *)
(* origin records the elevation text and unit as last typed, and how many    *)
(* unit toggles followed it (MaxToggles stands for that many or more).       *)

InitDisplay ==
    /\ fnCall = NoCall
    /\ \E s \in SettingsStates : InitDisplayAt(s)

NextDisplay ==
    \/ (toggleTemperatureUnit /\ UNCHANGED <<fnVars, formVars, origin, remembered, otherVars>>)
    \/ (/\ toggleElevationUnit
        /\ origin' = [origin EXCEPT !.toggles = Min(@ + 1, MaxToggles)]
        /\ UNCHANGED <<fnVars, formVars, remembered, otherVars>>)
    \/ (\E value \in TypedTexts :
            /\ handleElevationChange(value)
            /\ origin' = [unit |-> settings.elevationUnit, text |-> value,
                          toggles |-> 0]
            /\ UNCHANGED <<fnVars, formVars, remembered, otherVars>>)
    \/ (\E id \in RouteIds :
            openRecipe(id) /\ UNCHANGED <<fnVars, formVars, origin, remembered, otherVars>>)

SpecDisplay == InitDisplay /\ [][NextDisplay]_vars

-----------------------------------------------------------------------------
(* Specification SpecForm: the recipe form filled in and submitted *)

MaxTextLen == 2
MaxInstructions == 2

RECURSIVE TextsUpTo(_, _)
TextsUpTo(chars, n) ==
    IF n = 0 THEN {<<>>}
    ELSE LET shorter == TextsUpTo(chars, n - 1)
         IN  shorter \cup {Append(t, c) : t \in shorter, c \in chars}

NameTexts == {<<" ">>, <<" ", "a", " ">>}
UrlTexts == {<<>>, <<"u">>}
TimeTexts == TextsUpTo({"-", "5", "a"}, MaxTextLen) \cup {<<" ">>}
TempTexts == {<<>>, <<"0">>, <<"a">>}
StepTexts == {<<>>, <<" ">>, <<"a">>, <<"b">>}

Users == {"u1", "u2"}
\* getUser fails with an AuthError, a subclass of Error; the store's error is
\* whatever object the client library hands back
AuthErrors == {NoThrow, ErrorInstance("Auth session missing!")}
StoreErrors ==
    {NoThrow,
     ErrorInstance("new row violates row-level security policy"),
     ErrorObject("new row violates row-level security policy")}

\* a recipe opened for editing
EditedRecipes ==
    {[id |-> "r1", name |-> <<"a">>, image_url |-> <<"u">>, base_time |-> Num(5),
      base_temp |-> t, instructions |-> << <<"a">> >>] : t \in {Null}}

InitForm ==
    /\ fnCall = NoCall
    /\ settings = restSettings
    /\ localElevation = restSettings.elevation
    /\ recipes = defaultRecipes
    /\ listView = renderList(defaultRecipes, restSettings)
    /\ detailId = NoRoute
    /\ detailView = NoView
    /\ origin = [unit |-> restSettings.elevationUnit, text |-> restSettings.elevation,
                 toggles |-> 0]
    /\ remembered = NoFrame
    /\ \E data \in {NoData} \cup EditedRecipes : InitFormWith(data)
    /\ StoreAtRest
    /\ TimerAtRest
    /\ LocationAtRest(restSettings.elevationUnit)

notFormVars == <<fnVars, displayVars, origin, remembered, otherVars>>

NextForm ==
    \/ (\E text \in NameTexts : setName(text) /\ UNCHANGED notFormVars)
    \/ (\E text \in UrlTexts : setImageUrl(text) /\ UNCHANGED notFormVars)
    \/ (\E text \in TimeTexts : setBaseTime(text) /\ UNCHANGED notFormVars)
    \/ (\E text \in TempTexts : setBaseTemp(text) /\ UNCHANGED notFormVars)
    \/ (Len(instructions) < MaxInstructions /\ addInstruction /\ UNCHANGED notFormVars)
    \/ (\E index \in 1 .. MaxInstructions :
            removeInstruction(index) /\ UNCHANGED notFormVars)
    \/ (\E index \in 1 .. MaxInstructions, value \in StepTexts :
            updateInstruction(index, value) /\ UNCHANGED notFormVars)
    \/ (handleSubmit /\ UNCHANGED notFormVars)
    \/ (\E userError \in AuthErrors, user \in Users \cup {"null"} :
            getUserReturned(userError, user) /\ UNCHANGED notFormVars)
    \/ (\E storeError \in StoreErrors : storeReturned(storeError) /\ UNCHANGED notFormVars)

SpecForm == InitForm /\ [][NextForm]_vars

-----------------------------------------------------------------------------
(* Specification SpecPurity: the same handlers, with one computation of some *)
(* earlier render kept in remembered, to be compared with every later one.   *)

MaxPurityOffset == 0

PurityTexts ==
    {EmptyText, JunkText} \cup
    {Numeral(3000 - d) : d \in 0 .. MaxPurityOffset}

InitPurity ==
    /\ fnCall = NoCall
    /\ \E s \in [temperatureUnit : Units, elevationUnit : ElevationUnits,
                  elevation : PurityTexts \ {JunkText}] : InitDisplayAt(s)

\* remembered stays, or becomes one of the computations of this render
remember ==
    remembered' \in {remembered} \cup computations(recipes', listView', detailView', settings')

NextPurity ==
    \/ (toggleTemperatureUnit /\ remember /\ UNCHANGED <<fnVars, formVars, origin, otherVars>>)
    \/ (toggleElevationUnit /\ remember /\ UNCHANGED <<fnVars, formVars, origin, otherVars>>)
    \/ (\E value \in PurityTexts :
            handleElevationChange(value) /\ remember /\ UNCHANGED <<fnVars, formVars, origin, otherVars>>)
    \/ (\E id \in RouteIds : openRecipe(id) /\ remember /\ UNCHANGED <<fnVars, formVars, origin, otherVars>>)

SpecPurity == InitPurity /\ [][NextPurity]_vars

-----------------------------------------------------------------------------
(* Specification SpecStore: the recipes table serving the requests of any    *)
(* client, and the form submitting to it.                                    *)

\* the columns of a row as a client may send them
RowData(text, user) ==
    [name |-> text, image_url |-> <<"u">>, base_time |-> Num(5), base_temp |-> Null,
     instructions |-> << <<"a">> >>, user_id |-> user]

StoreData == {RowData(text, user) : text \in {<<"b">>, <<"c">>}, user \in Users}

Sessions == Users \cup {"null"}

\* the settings and the two recipe screens at rest
ScreensAtRest ==
    /\ fnCall = NoCall
    /\ settings = restSettings
    /\ localElevation = restSettings.elevation
    /\ recipes = defaultRecipes
    /\ listView = renderList(defaultRecipes, restSettings)
    /\ detailId = NoRoute
    /\ detailView = NoView
    /\ origin = [unit |-> restSettings.elevationUnit, text |-> restSettings.elevation,
                 toggles |-> 0]
    /\ remembered = NoFrame

\* the form of a new recipe once its fields have been typed in
FilledForm ==
    /\ initialData = NoData
    /\ name = <<"b">>
    /\ imageUrl = <<"u">>
    /\ baseTime = <<"5">>
    /\ baseTemp = <<>>
    /\ instructions = << <<"a">> >>
    /\ loading = FALSE
    /\ error = NoError
    /\ pc = "idle"
    /\ pending = NoFields
    /\ request = NoRequest
    /\ closed = FALSE

InitStore ==
    /\ ScreensAtRest
    /\ (FilledForm \/ \E data \in EditedRecipes : InitFormWith(data))
    /\ StoreAtRest
    /\ TimerAtRest
    /\ LocationAtRest(restSettings.elevationUnit)

notStoreVars == <<fnVars, displayVars, origin, remembered, timerVars, locationVars>>

NextStore ==
    \/ (\E uid \in Sessions, data \in StoreData :
            clientInsert(uid, data) /\ UNCHANGED <<notStoreVars, formVars>>)
    \/ (\E uid \in Sessions, data \in StoreData,
           eq_id \in RowIds \cup {Anyone}, eq_user_id \in Users \cup {Anyone} :
            clientUpdate(uid, data, eq_id, eq_user_id)
                /\ UNCHANGED <<notStoreVars, formVars>>)
    \/ (\E uid \in Sessions,
           eq_id \in RowIds \cup {Anyone}, eq_user_id \in Users \cup {Anyone} :
            clientDelete(uid, eq_id, eq_user_id) /\ UNCHANGED <<notStoreVars, formVars>>)
    \/ (handleSubmit /\ UNCHANGED <<notStoreVars, storeVars>>)
    \/ (\E userError \in AuthErrors, user \in Sessions :
            getUserReturned(userError, user) /\ UNCHANGED <<notStoreVars, storeVars>>)
    \/ (\E uid \in Sessions, storeError \in StoreErrors :
            formRequestServed(uid, storeError) /\ UNCHANGED notStoreVars)

SpecStore == InitStore /\ [][NextStore]_vars

-----------------------------------------------------------------------------
(* Specification SpecSteps: the form with its cooking time and image URL     *)
(* filled in, its name and its instruction steps edited, and submitted.      *)

InitSteps ==
    /\ ScreensAtRest
    /\ (FilledForm \/ \E data \in EditedRecipes : InitFormWith(data))
    /\ StoreAtRest
    /\ TimerAtRest
    /\ LocationAtRest(restSettings.elevationUnit)

NextSteps ==
    \/ (\E text \in NameTexts : setName(text) /\ UNCHANGED notFormVars)
    \/ (Len(instructions) < MaxInstructions /\ addInstruction /\ UNCHANGED notFormVars)
    \/ (\E index \in 1 .. MaxInstructions :
            removeInstruction(index) /\ UNCHANGED notFormVars)
    \/ (\E index \in 1 .. MaxInstructions, value \in StepTexts :
            updateInstruction(index, value) /\ UNCHANGED notFormVars)
    \/ (handleSubmit /\ UNCHANGED notFormVars)
    \/ (\E userError \in AuthErrors, user \in Sessions :
            getUserReturned(userError, user) /\ UNCHANGED notFormVars)
    \/ (\E storeError \in StoreErrors : storeReturned(storeError) /\ UNCHANGED notFormVars)

SpecSteps == InitSteps /\ [][NextSteps]_vars

-----------------------------------------------------------------------------
(* Specification SpecTimer: the timer screen under presses and ticks *)

MaxMinutes == 1
MaxSeconds == 3

MinuteTexts == {<<>>, <<"-">>, <<"-", "1">>} \cup {numberText(n) : n \in 0 .. MaxMinutes}
SecondTexts == {<<>>, <<"x">>} \cup {numberText(n) : n \in 0 .. MaxSeconds}

InitTimer ==
    /\ ScreensAtRest
    /\ InitFormWith(NoData)
    /\ StoreAtRest
    /\ TimerAtRest
    /\ LocationAtRest(restSettings.elevationUnit)

notTimerVars == <<fnVars, displayVars, origin, remembered, formVars, storeVars,
                  locationVars>>

NextTimer ==
    \/ (\E text \in MinuteTexts : setInputMinutes(text) /\ UNCHANGED notTimerVars)
    \/ (\E text \in SecondTexts : setInputSeconds(text) /\ UNCHANGED notTimerVars)
    \/ (toggleTimer /\ UNCHANGED notTimerVars)
    \/ (resetTimer /\ UNCHANGED notTimerVars)
    \/ (\E id \in intervals : tick(id) /\ UNCHANGED notTimerVars)

SpecTimer == InitTimer /\ [][NextTimer]_vars

\* an interval that is set keeps firing
SpecTimerFair ==
    SpecTimer /\ WF_vars(\E id \in intervals : tick(id) /\ UNCHANGED notTimerVars)

-----------------------------------------------------------------------------
(* Specification SpecSettings: the settings screen with its location lookups *)

MaxLookups == 2
MaxAltitudeK == 2
AltitudeStep == 762

Altitudes == {Null} \cup {Num(AltitudeStep * k) : k \in 0 .. MaxAltitudeK}
SettingsTexts == {EmptyText, Numeral(1000)}

InitSettings ==
    /\ fnCall = NoCall
    /\ \E unit \in ElevationUnits, text \in SettingsTexts :
           LET s == [temperatureUnit |-> "imperial", elevationUnit |-> unit,
                     elevation |-> text]
           IN  /\ settings = s
               /\ localElevation = text
               /\ recipes = defaultRecipes
               /\ listView = renderList(defaultRecipes, s)
               /\ origin = [unit |-> unit, text |-> text, toggles |-> 0]
               /\ denominated = unit
               /\ \/ (errorMsg = webMessage /\ lookups = <<>>)
                  \/ (/\ errorMsg = NoMessage
                      /\ lookups = <<[unit |-> unit, stage |-> "permission"]>>)
    /\ detailId = NoRoute
    /\ detailView = NoView
    /\ remembered = NoFrame
    /\ InitFormWith(NoData)
    /\ StoreAtRest
    /\ TimerAtRest

notSettingsVars == <<fnVars, origin, remembered, formVars, storeVars, timerVars>>

NextSettings ==
    \/ (\E value \in SettingsTexts \cup {JunkText} :
            /\ handleElevationChange(value)
            /\ denominated' = settings.elevationUnit
            /\ UNCHANGED <<lookups, errorMsg, notSettingsVars>>)
    \/ (/\ Len(lookups) < MaxLookups
        /\ toggleElevationUnit
        /\ lookupEffect(settings'.elevationUnit)
        /\ denominated' = (IF denominated = settings.elevationUnit
                           THEN settings'.elevationUnit ELSE "neither")
        /\ UNCHANGED notSettingsVars)
    \/ (toggleTemperatureUnit /\ UNCHANGED <<locationVars, notSettingsVars>>)
    \/ (\E i \in 1 .. MaxLookups, status \in {"granted", "denied"} :
            permissionReturned(i, status) /\ UNCHANGED notSettingsVars)
    \/ (\E i \in 1 .. MaxLookups, threw \in BOOLEAN, altitude \in Altitudes :
            positionReturned(i, threw, altitude) /\ UNCHANGED notSettingsVars)

SpecSettings == InitSettings /\ [][NextSettings]_vars

-----------------------------------------------------------------------------
(* Claims about the adjustment functions *)

\* C1: for every base time t and every numeric elevation e (negative ones
\* included) calculateAdjustedTime returns the unrounded product t*m with
\* m = 1.0 below 3000 ft, 1.10 on [3000, 5000), 1.15 on [5000, 7000) and
\* 1.20 from 7000 ft up: each band includes its lower bound.
C1_TimeBands ==
    (fnCall.fn = "calculateAdjustedTime" /\ IsNum(fnCall.a) /\ IsNum(fnCall.b)) =>
        LET t == fnCall.a.v
            e == fnCall.b.v
        IN  /\ IsNum(fnCall.ret)
            /\ (e < 3000 * FP) => (fnCall.ret.v = t * 100)
            /\ (3000 * FP <= e /\ e < 5000 * FP) => (fnCall.ret.v = t * 110)
            /\ (5000 * FP <= e /\ e < 7000 * FP) => (fnCall.ret.v = t * 115)
            /\ (7000 * FP <= e) => (fnCall.ret.v = t * 120)

\* adjustedTime(100, 3000) = 110 has been computed
C1_Witness ==
    /\ fnCall.fn = "calculateAdjustedTime"
    /\ fnCall.a = Num(100)
    /\ fnCall.b = Num(3000 * FP)
    /\ fnCall.ret = Num(110 * TimeScale)

\* C2: for every present base temperature b and every numeric elevation e,
\* calculateAdjustedTemp(b, e) = b - 2*floor(e/1000), in Fahrenheit degrees.
C2_TempReduction ==
    (fnCall.fn = "calculateAdjustedTemp" /\ IsNum(fnCall.a) /\ IsNum(fnCall.b)) =>
        \E q \in -2 .. (MaxElevK + 2) :
            /\ q * 1000 * FP <= fnCall.b.v
            /\ fnCall.b.v < (q + 1) * 1000 * FP
            /\ fnCall.ret = Num(fnCall.a.v - 2 * q)

\* C3: calculateAdjustedTemp returns null if and only if the base temperature
\* is null; a present base, the value 0 included, gives a number.
C3_NullIffNull ==
    (fnCall.fn = "calculateAdjustedTemp") =>
        ((fnCall.ret.k = "null") <=> (fnCall.a.k = "null"))

\* C7: convertTemperature gives null for null with either unit, the same
\* temperature for imperial, and for metric the integer nearest to
\* (t - 32) * 5 / 9.
C7_ConvertTemperature ==
    (fnCall.fn = "convertTemperature") =>
        /\ (fnCall.a.k = "null") => (fnCall.ret.k = "null")
        /\ (IsNum(fnCall.a) /\ fnCall.unit = "imperial") => (fnCall.ret = fnCall.a)
        /\ (IsNum(fnCall.a) /\ fnCall.unit = "metric") =>
              /\ IsNum(fnCall.ret)
              /\ 2 * (9 * fnCall.ret.v - 5 * (fnCall.a.v - 32)) <= 9
              /\ 2 * (5 * (fnCall.a.v - 32) - 9 * fnCall.ret.v) <= 9

\* convertTemperature(350, metric) = 177 has been computed
C7_Witness ==
    /\ fnCall.fn = "convertTemperature"
    /\ fnCall.a = Num(350)
    /\ fnCall.unit = "metric"
    /\ fnCall.ret = Num(177)

-----------------------------------------------------------------------------
(* Claims about the display pipeline *)

MalformedElevation == settings.elevation.k \in {"empty", "junk", "NaN"}

\* C4: an elevation setting that is empty or not numeric is treated as 0 feet
\* with either elevation unit: the adjusted time is the base time, the
\* adjusted temperature the base temperature, and nothing is NaN.
C4_MalformedIsSeaLevel ==
    MalformedElevation =>
        /\ \A i \in 1 .. Len(listView) :
              /\ listView[i].elevationInFeet = Num(0)
              /\ listView[i].adjustedTime = recipes[i].base_time
              /\ listView[i].adjustedTemp = recipes[i].base_temp
        /\ (detailView.screen = "recipe") =>
              \A i \in 1 .. Len(detailRecipes) :
                  (detailRecipes[i].id = detailView.id) =>
                      /\ detailView.elevationInFeet = Num(0)
                      /\ detailView.adjustedTime =
                             Num(detailRecipes[i].base_time.v * TimeScale)
                      /\ detailView.adjustedTemp = detailRecipes[i].base_temp

\* the elevations in feet that the two screens handed to the adjustment
RenderedFeet ==
    {listView[i].elevationInFeet : i \in 1 .. Len(listView)} \cup
    (IF detailView.screen = "recipe" THEN {detailView.elevationInFeet} ELSE {})

Abs(x) == IF x < 0 THEN -x ELSE x

\* C5 as claimed: with the unit meters the elevation in feet handed to the
\* adjustment is round(value * 3.28084), a whole number; with feet it is the
\* entered value.
C5_FeetRounded ==
    (settings.elevation.k = "numeral") =>
        \A feet \in RenderedFeet :
            /\ IsNum(feet)
            /\ (settings.elevationUnit = "m") =>
                  /\ feet.v % FP = 0
                  /\ 2 * Abs(feet.v - settings.elevation.v * FeetPerMeterFP) <= FP
            /\ (settings.elevationUnit = "ft") => (feet.v = settings.elevation.v * FP)

\* C5 as amended: with the unit meters the elevation in feet handed to the
\* adjustment is value * 3.28084 exactly, not rounded; with feet it is the
\* entered value.
C5_FeetUnrounded ==
    (settings.elevation.k = "numeral") =>
        \A feet \in RenderedFeet :
            /\ IsNum(feet)
            /\ (settings.elevationUnit = "m") =>
                  (feet.v = settings.elevation.v * FeetPerMeterFP)
            /\ (settings.elevationUnit = "ft") => (feet.v = settings.elevation.v * FP)

\* 1500 m is rendered as 4921.26 ft, which is no whole number of feet
C5_Witness ==
    /\ settings.elevationUnit = "m"
    /\ settings.elevation = Numeral(1500)
    /\ detailView.screen = "recipe"
    /\ \A feet \in RenderedFeet : feet.v = 492126 * (FP \div 100)

\* the distance, in hundredths of a minute, between a recipe's adjusted time
\* at the rendered elevation and at the elevation originally entered in feet
RoundTripDrift(i) ==
    Abs(calculateAdjustedTime(recipes[i].base_time, listView[i].elevationInFeet).v
        - calculateAdjustedTime(recipes[i].base_time,
                                elevationInFeet("ft", Number(origin.text))).v)

RoundTripped == origin.unit = "ft" /\ origin.toggles \in {1, 2}

\* C6 as claimed: an elevation entered in feet and converted to meters (one
\* toggle, the screens converting back) or to meters and back to feet (two
\* toggles) gives an adjusted time within 1 minute of the direct one.
C6_RoundTripWithinOne ==
    RoundTripped => \A i \in 1 .. Len(listView) : RoundTripDrift(i) <= 1 * TimeScale

\* C6 as amended: the round trip moves the adjusted time by at most 10% of
\* the base time (one band step).
C6_RoundTripWithinTenth ==
    RoundTripped =>
        \A i \in 1 .. Len(listView) :
            RoundTripDrift(i) * 10 <= Abs(recipes[i].base_time.v) * TimeScale

\* 3000 ft toggled to 914 m is rendered as 2998.69 ft: below the band edge
C6_Witness ==
    /\ origin = [unit |-> "ft", text |-> Numeral(3000), toggles |-> 1]
    /\ settings.elevationUnit = "m"
    /\ settings.elevation = Numeral(914)
    /\ RoundTripDrift(1) = 120

\* temp is base lowered by 2 degrees Fahrenheit per full 1000 feet and only
\* then, for metric, converted once to the nearest degree Celsius
ReducedThenConverted(temp, base, feet, unit) ==
    IF Falsy(base) THEN temp = Null
    ELSE IF ~IsNum(feet) THEN temp = NaN
    ELSE \E q \in -50 .. 50 :
            /\ q * 1000 * FP <= feet.v
            /\ feet.v < (q + 1) * 1000 * FP
            /\ IsNum(temp)
            /\ LET adjusted == base.v - 2 * q
               IN  IF unit = "metric"
                   THEN 2 * Abs(9 * temp.v - 5 * (adjusted - 32)) <= 9
                   ELSE temp.v = adjusted

\* C8: on the list card, on the detail's adjusted temperature row and in the
\* rewritten instruction text, the temperature shown is the Fahrenheit base
\* reduced for the elevation first and converted to the display unit once,
\* afterwards.
C8_ReduceThenConvertOnce ==
    /\ \A i \in 1 .. Len(listView) :
          /\ ReducedThenConverted(listView[i].displayTemp, recipes[i].base_temp,
                                  listView[i].elevationInFeet, settings.temperatureUnit)
          /\ listView[i].recipeTime.temp = listView[i].displayTemp
    /\ (detailView.screen = "recipe") =>
          \A i \in 1 .. Len(detailRecipes) :
              (detailRecipes[i].id = detailView.id) =>
                  /\ ReducedThenConverted(detailView.shownAdjustedTemp.temp,
                                          detailRecipes[i].base_temp,
                                          detailView.elevationInFeet,
                                          settings.temperatureUnit)
                  /\ \A n \in 1 .. Len(detailRecipes[i].instructions) :
                        includesDegF(detailRecipes[i].instructions[n]) =>
                            \E p \in 1 .. Len(detailView.instructions[n]) :
                                /\ detailView.instructions[n][p].t = "deg"
                                /\ detailView.instructions[n][p].letter =
                                       unitLetter(settings.temperatureUnit)
                                /\ ReducedThenConverted(
                                       detailView.instructions[n][p].deg,
                                       detailRecipes[i].base_temp,
                                       detailView.elevationInFeet,
                                       settings.temperatureUnit)

\* the cookies at 1500 m in metric: 350 - 8 = 342 F, shown as 172 C on the
\* card, on the detail row and in "Preheat oven to 172 C"
C8_Witness ==
    /\ settings = [temperatureUnit |-> "metric", elevationUnit |-> "m",
                   elevation |-> Numeral(1500)]
    /\ listView[1].displayTemp = Num(172)
    /\ detailView.screen = "recipe"
    /\ detailView.id = "1"
    /\ detailView.shownAdjustedTemp.temp = Num(172)
    /\ detailView.instructions[1][2] = Deg(Num(172), "C")

SameInputs(f, g) ==
    /\ f.baseTime = g.baseTime
    /\ f.baseTemp = g.baseTemp
    /\ f.elevationInFeet = g.elevationInFeet
    /\ f.temperatureUnit = g.temperatureUnit

\* every computation now on screen agrees with the remembered one when the
\* four inputs agree (the list shows whole minutes, the detail screen keeps
\* the fraction, so times are compared per screen)
AgreesWithRemembered ==
    (remembered.screen # "none") =>
        \A f \in computations(recipes, listView, detailView, settings) :
            SameInputs(f, remembered) =>
                /\ f.displayTemp = remembered.displayTemp
                /\ (f.screen = remembered.screen) =>
                       (f.adjustedTime = remembered.adjustedTime)

-----------------------------------------------------------------------------
(* Claims about the recipe form *)

\* C10: every record the form sends to the recipe store, by insert or by
\* update, has a base_time that is a whole number greater than or equal to 0.
C10_BaseTimeNotNegative ==
    (request.op # "none") =>
        (IsNum(request.data.base_time) /\ request.data.base_time.v >= 0)

\* out holds exactly the entries of steps that are not blank, in the order
\* they have in steps: some strictly increasing choice of positions of steps
\* covers every non-blank position and spells out
KeepsNonBlankInOrder(steps, out) ==
    \E pos \in [1 .. Len(out) -> 1 .. Len(steps)] :
        /\ \A i, j \in 1 .. Len(out) : (i < j) => (pos[i] < pos[j])
        /\ \A i \in 1 .. Len(out) : out[i] = steps[pos[i]]
        /\ \A k \in 1 .. Len(steps) :
               (\E c \in 1 .. Len(steps[k]) : steps[k][c] # " ")
                   <=> (\E i \in 1 .. Len(out) : pos[i] = k)

\* C11: every record the form sends to the recipe store has a name that is
\* not empty and has no space at either end, and an instructions sequence
\* with at least one entry, no entry made of spaces only, and exactly the
\* non-blank steps of the form in the order they were entered.
C11_NameAndInstructions ==
    (request.op # "none") =>
        /\ request.data.name # <<>>
        /\ Head(request.data.name) # " "
        /\ request.data.name[Len(request.data.name)] # " "
        /\ Len(request.data.instructions) >= 1
        /\ \A i \in 1 .. Len(request.data.instructions) :
               \E c \in 1 .. Len(request.data.instructions[i]) :
                   request.data.instructions[i][c] # " "
        /\ KeepsNonBlankInOrder(instructions, request.data.instructions)

\* a record is on its way whose name was typed with spaces around it and whose
\* first step was left blank
C11_Witness ==
    /\ request.op = "insert"
    /\ name = <<" ", "a", " ">>
    /\ request.data.name = <<"a">>
    /\ instructions = << <<" ">>, <<"b">> >>
    /\ request.data.instructions = << <<"b">> >>

\* the field values a press of the submit button works on
currentFields ==
    [name |-> name, imageUrl |-> imageUrl, baseTime |-> baseTime,
     baseTemp |-> baseTemp, instructions |-> instructions]

\* handleSubmit's failures other than the store's: each ends with its message
\* on the label, loading false and onClose not called; a validation failure
\* starts no call; onClose is called only when a store write returned no error
SubmitFailuresShown ==
    /\ (handleSubmit /\ validateForm(currentFields) # NoError) =>
           /\ error' = validateForm(currentFields)
           /\ ~loading' /\ ~closed'
           /\ pc' = "idle" /\ request' = NoRequest
    /\ \A userError \in AuthErrors, user \in Users \cup {"null"} :
           (getUserReturned(userError, user) /\ userError.thrown) =>
               (error' = userError.message /\ ~loading' /\ ~closed'
                /\ request' = NoRequest)
    /\ getUserReturned(NoThrow, "null") =>
           (error' = "Please sign in to continue" /\ ~loading' /\ ~closed'
            /\ request' = NoRequest)
    /\ (closed' /\ ~closed) =>
           (pc = "store" /\ request.op \in {"insert", "update"}
            /\ storeReturned(NoThrow))

\* C13: every failure of handleSubmit (validation, authentication, no
\* signed-in user, a store insert or update error) ends with the error label
\* set to that failure's message, onClose not called and loading false; a
\* validation failure makes no authentication or store call; onClose is
\* called only after a store write returned without error.
C13_FailuresShowTheirMessage ==
    [][/\ SubmitFailuresShown
       /\ \A storeError \in StoreErrors :
              (storeReturned(storeError) /\ storeError.thrown) =>
                  (error' = storeError.message /\ ~loading' /\ ~closed')]_vars

-----------------------------------------------------------------------------
(* The list and the detail screen side by side *)

\* C19: for every recipe and every settings value the card of the recipe on
\* the list screen and the detail screen of the same recipe show the same
\* adjusted time in whole minutes and the same adjusted display temperature
\* with the same unit letter (or both show no adjusted temperature).
C19_ListAndDetailAgree ==
    (detailView.screen = "recipe") =>
        \A i \in 1 .. Len(listView) :
            (listView[i].id = detailView.id) =>
                /\ listView[i].adjustedTime = detailView.shownAdjustedTime
                /\ IF detailView.temperatureRows
                   THEN /\ listView[i].recipeTime.temp = detailView.shownAdjustedTemp.temp
                        /\ listView[i].recipeTime.letter
                               = detailView.shownAdjustedTemp.letter
                   ELSE listView[i].recipeTime.temp = Null

\* the cookies at 1500 m in metric units: 13.2 minutes computed, 13 minutes
\* and 172 degrees Celsius on both screens
C19_Witness ==
    /\ detailView.screen = "recipe"
    /\ detailView.id = "1"
    /\ settings.elevationUnit = "m"
    /\ settings.elevation = Numeral(1500)
    /\ detailView.adjustedTime = Num(1320)
    /\ detailView.shownAdjustedTime = Num(13)
    /\ listView[1].adjustedTime = Num(13)
    /\ listView[1].recipeTime = [text |-> " at ", temp |-> Num(172), letter |-> "C"]
    /\ detailView.shownAdjustedTemp = [text |-> "", temp |-> Num(172), letter |-> "C"]

-----------------------------------------------------------------------------
(* Claims about the recipes table *)

\* every row's user_id is the id of the user who inserted it
RowsKeepTheirInserter ==
    \A id \in RowIds :
        table[id].present => (table[id].data.user_id = table[id].insertedBy)

\* the rows a step changes or removes
written == {id \in RowIds : table[id].present /\ table'[id] # table[id]}

\* a row is changed or removed only by a request of the user who inserted it,
\* whichever request the step was, and an update sent by the form changes no
\* row but the one with the edited recipe's id, owned by the user the form
\* found signed in
OnlyTheOwnerWrites ==
    /\ \A uid \in Sessions, data \in StoreData :
           clientInsert(uid, data) => (written = {})
    /\ \A uid \in Sessions, data \in StoreData,
          eq_id \in RowIds \cup {Anyone}, eq_user_id \in Users \cup {Anyone} :
           clientUpdate(uid, data, eq_id, eq_user_id) =>
               \A id \in written : uid = table[id].insertedBy
    /\ \A uid \in Sessions,
          eq_id \in RowIds \cup {Anyone}, eq_user_id \in Users \cup {Anyone} :
           clientDelete(uid, eq_id, eq_user_id) =>
               \A id \in written : uid = table[id].insertedBy
    /\ \A uid \in Sessions, storeError \in StoreErrors :
           formRequestServed(uid, storeError) =>
               \A id \in written :
                   /\ uid = table[id].insertedBy
                   /\ request.op = "update"
                   /\ id = initialData.id
                   /\ table[id].data.user_id = request.data.user_id

\* C12: under the policies of the recipes table, after any sequence of
\* insert, update and delete requests, every row's user_id is the id of the
\* user who inserted it and a row is modified or deleted only by a request of
\* that user; the form's update touches only the row whose id is the edited
\* recipe's id and whose user_id is the signed-in user.
C12_RowsBelongToTheirInserter ==
    [][RowsKeepTheirInserter' /\ OnlyTheOwnerWrites]_vars

\* the form's update went through: row r1, inserted by u1, carries the name
\* the form sent, while u2 owns row r2
C12_Witness ==
    /\ closed
    /\ initialData.id = "r1"
    /\ table["r1"].present /\ table["r1"].insertedBy = "u1"
    /\ table["r1"].data.name = <<"a">>
    /\ table["r2"].present /\ table["r2"].insertedBy = "u2"

-----------------------------------------------------------------------------
(* Claims about the settings screen *)

\* C18: after any interleaving of elevation edits, elevation-unit toggles and
\* completions of the location lookups, the stored elevation number is
\* expressed in the stored elevation unit: no lookup started under one unit
\* writes a number of that unit after the unit was toggled, and a toggle
\* changes number and unit in one update.
C18_ElevationInStoredUnit ==
    /\ denominated = settings.elevationUnit
    /\ localElevation = settings.elevation

-----------------------------------------------------------------------------
(* Claims about the timer screen *)

\* the steps of the timer screen
ticked == \E id \in intervals : tick(id)

C16_CountdownEnds ==
    /\ [](isRunning => timeLeft > 0)
    /\ []<>(~isRunning)
    /\ [][(isRunning /\ ~isRunning' /\ ticked) => (timeLeft = 1 /\ timeLeft' = 0)]_vars
    /\ [][(ticked /\ timeLeft = 1) => (timeLeft' = 0 /\ ~isRunning')]_vars

\* a countdown of three seconds has run out
C16_Witness ==
    /\ timeLeft = 0
    /\ totalTimeRef = 3
    /\ ~isRunning

\* C17: toggleTimer on a running timer clears isRunning and leaves timeLeft
\* and the total alone; while paused no tick decrements timeLeft; toggleTimer
\* on a paused timer with timeLeft > 0 resumes from that timeLeft and reads no
\* input field; toggleTimer on an idle timer whose inputs total 0 or less, or
\* are no numbers, changes nothing.
C17_PauseKeepsTimeLeft ==
    [][/\ (toggleTimer /\ isRunning) =>
              (~isRunning' /\ timeLeft' = timeLeft /\ totalTimeRef' = totalTimeRef)
       /\ (~isRunning /\ ~resetTimer) => (timeLeft' >= timeLeft)
       /\ (~isRunning) => ~ticked
       /\ (toggleTimer /\ ~isRunning /\ timeLeft > 0) =>
              (isRunning' /\ timeLeft' = timeLeft /\ totalTimeRef' = totalTimeRef)
       /\ (toggleTimer /\ ~isRunning /\ timeLeft = 0
               /\ ~(IsNum(totalSeconds) /\ totalSeconds.v > 0)) =>
              UNCHANGED timerVars]_vars

\* the timer stands paused part of the way
C17_Witness ==
    /\ ~isRunning
    /\ timeLeft > 0
    /\ timeLeft < totalTimeRef
    /\ intervals = {}

====
